---- MODULE Spec2Model ----
(***************************************************************************)
(* Model of the message-delivery core of backend-rs: the relational store  *)
(* (conversations, participants, messages, receipts) as MessagingService   *)
(* reads and writes it, and the request handlers that run concurrently     *)
(* against it.  A handler takes one step per SQL statement (or committed   *)
(* transaction) that another handler can observe or be observed by; the    *)
(* read-only SELECTs that end get_conversation run together in one step.   *)
(* The second half is the websocket side: the WsHub registry, the three    *)
(* tasks handle_socket spawns per connection, their bounded channel, the   *)
(* relay's publish/subscribe topics and the presence keys.                 *)
(***************************************************************************)
EXTENDS Integers, Sequences, FiniteSets, Bags, TLC

\* ------------------------------------------------------------------ bounds

\* Number of conversation rows the store may hold.
MaxConvs == 2
\* Number of message rows the store may hold.
MaxMsgs == 1
\* Number of message rows the store may hold when history is paged.
MaxHistory == 2
\* Last value of the database clock NOW().
MaxTime == 1
\* Largest LIMIT / OFFSET a caller passes to get_messages.
MaxLimit == 2

\* Longest member_ids list a caller passes to create_group_conversation.
MaxMembers == 2

\* Capacity of a connection's outbound channel (mpsc::channel(256)).
ChanCap == 1
\* Number of inbound frames the connections dispatch in all.
MaxFrames == 2
\* Last value of the relay's clock, in presence time units.
MaxClock == 3
\* Lifetime of an "online" presence key, in presence time units (300 s in
\* the code); longer than OfflineTTL.
OnlineTTL == 2
\* Lifetime of the "offline" presence key written at cleanup (1 s).
OfflineTTL == 1

Users == {"u1", "u2", "u3"}
Procs == {"p1", "p2"}
\* The connections (one handle_socket call each) and the device ids.
Sessions == {"s1", "s2"}
Devices == {1, 2}

\* Option::None / SQL NULL for ids and timestamps (ids start at 1, and a
\* timestamp column holds NULL or a clock value >= 0).
NULL == 0 - 1

VARIABLES
    conversations,  \* table conversations: Seq of rows, id = index
    participants,   \* table participants: Seq of rows
    messages,       \* table messages: Seq of rows, id = index
    receipts,       \* table receipts: bag of rows (message_id, user_id, type)
    published,      \* events RedisClient::publish_message has published
    redisUp,        \* whether the relay accepts a publish
    now,            \* the database clock
    pc,             \* per handler task: the statement it is about to run
    call,           \* per handler task: arguments and locals of its call
    ret,            \* per handler task: the AppResult of its finished call
    hub,            \* WsHub.clients: client id -> the connection whose Sender it holds
    conn,           \* per connection: identity, handle_socket's position, its tasks
    chan,           \* per connection: the events buffered in its mpsc channel
    sub,            \* per connection: the events its relay subscription has received
    wire,           \* per connection: the frames written to its socket
    presence,       \* the relay's presence keys: status and expiry per user
    clock,          \* the relay's clock
    inbound         \* number of inbound frames dispatched so far

vars == <<conversations, participants, messages, receipts, published, redisUp, now, pc, call, ret,
          hub, conn, chan, sub, wire, presence, clock, inbound>>
store == <<conversations, participants, messages, receipts>>
\* The websocket side without the subscriptions, and all of it.
net == <<hub, conn, chan, wire, presence, clock, inbound>>
ws == <<net, sub>>

\* ------------------------------------------------------------- row shapes

NoCall == [op |-> "none", user |-> "u1", other |-> "u1", conv |-> 0, msg |-> 0,
           members |-> <<>>]
NoRet == [status |-> "none", conv |-> 0, unread |-> 0, last |-> 0, parts |-> {},
          rows |-> <<>>, limit |-> 0, offset |-> 0, before |-> 0]

\* No connection: a registry slot without entry, a task waiting on nothing.
NoSession == "none"

\* A connection before its socket is upgraded.  hs is handle_socket's
\* position; redis_task, send_task and recv_task are the spawned tasks; link
\* is the socket and broken_at the time it broke; todo and cur are the
\* locals of a send_to_user in progress.
NoConn == [user |-> "u1", device |-> 1, hs |-> "none", redis_task |-> "off",
           send_task |-> "off", recv_task |-> "off", link |-> "none",
           broken_at |-> NULL, todo |-> {}, cur |-> NoSession]

\* A presence key that is not set.
NoPresence == [status |-> "none", expires |-> 0]

\* format!("{}:{}", user_id, device_id)
ClientId(user_id, device_id) == <<user_id, device_id>>
ClientIds == Users \X Devices

\* The WsMessage notify_participants publishes, and the pong of a ping.
NewMessageEvent(user_id, message_id) ==
    [type |-> "new_message", to |-> user_id, msg |-> message_id]
PongEvent(user_id) == [type |-> "pong", to |-> user_id, msg |-> 0]

\* The WsMessage broadcast_typing publishes.
TypingEvent(user_id, conversation_id, from_id, is_typing) ==
    [type |-> "typing", to |-> user_id, msg |-> 0, conv |-> conversation_id,
     from |-> from_id, is_typing |-> is_typing]

StatusRank(s) ==
    CASE s = "sending" -> 0
      [] s = "sent" -> 1
      [] s = "delivered" -> 2
      [] s = "read" -> 3
      [] OTHER -> 0

ConvIds == DOMAIN conversations
MsgIds == DOMAIN messages

\* ------------------------------------------------------ queries (SELECT)

\* Faulty variant: the participant check without "AND left_at IS NULL".
IsParticipantIgnoringLeft(conversation_id, user_id) ==
    \E i \in DOMAIN participants :
        /\ participants[i].conversation_id = conversation_id
        /\ participants[i].user_id = user_id

\* SELECT 1 FROM participants WHERE conversation_id = $1 AND user_id = $2
\* AND left_at IS NULL
IsParticipant(conversation_id, user_id) ==
    \E i \in DOMAIN participants :
        /\ participants[i].conversation_id = conversation_id
        /\ participants[i].user_id = user_id
        /\ participants[i].left_at = NULL

\* Faulty variant: the existence check finds only conversations the caller created.
ExistingDirectCreatedByCaller(user_id, other_user_id) ==
    {c \in ConvIds :
        /\ conversations[c].type = "direct"
        /\ conversations[c].created_by = user_id
        /\ \E i, j \in DOMAIN participants :
            /\ participants[i].conversation_id = c
            /\ participants[j].conversation_id = c
            /\ participants[i].user_id = user_id
            /\ participants[j].user_id = other_user_id
            /\ participants[i].left_at = NULL
            /\ participants[j].left_at = NULL}

\* The rows of create_direct_conversation's existence check: direct
\* conversations joined with an active participant row p1 of user_id and an
\* active participant row p2 of other_user_id (p1 and p2 may be the same row).
ExistingDirect(user_id, other_user_id) ==
    {c \in ConvIds :
        /\ conversations[c].type = "direct"
        /\ \E i, j \in DOMAIN participants :
            /\ participants[i].conversation_id = c
            /\ participants[j].conversation_id = c
            /\ participants[i].user_id = user_id
            /\ participants[j].user_id = other_user_id
            /\ participants[i].left_at = NULL
            /\ participants[j].left_at = NULL}

\* SELECT * FROM participants WHERE conversation_id = $1 AND left_at IS NULL
\* (the users of the rows)
ActiveParticipants(conversation_id) ==
    {participants[i].user_id : i \in
        {j \in DOMAIN participants :
            /\ participants[j].conversation_id = conversation_id
            /\ participants[j].left_at = NULL}}

\* Faulty variant: the unread-count query without "AND m.deleted_at IS NULL".
UnreadRowsCountDeleted(m, conversation_id, user_id) ==
    LET n == CopiesIn([message_id |-> m, user_id |-> user_id, type |-> "read"], receipts)
    IN  IF /\ n = 0
           /\ messages[m].conversation_id = conversation_id
           /\ messages[m].sender_id # user_id
        THEN 1 ELSE 0

\* Faulty variant: the unread-count query without "AND m.sender_id != $2".
UnreadRowsCountOwn(m, conversation_id, user_id) ==
    LET n == CopiesIn([message_id |-> m, user_id |-> user_id, type |-> "read"], receipts)
    IN  IF /\ n = 0
           /\ messages[m].conversation_id = conversation_id
           /\ messages[m].deleted_at = NULL
        THEN 1 ELSE 0

\* Number of rows of the LEFT JOIN of message m with the read receipts of
\* user_id that pass the WHERE clause of the unread-count query: a message
\* with no matching receipt joins to one row with r.id NULL, a message with
\* n matching receipts joins to n rows with r.id set.
UnreadRows(m, conversation_id, user_id) ==
    LET n == CopiesIn([message_id |-> m, user_id |-> user_id, type |-> "read"], receipts)
    IN  IF /\ n = 0
           /\ messages[m].conversation_id = conversation_id
           /\ messages[m].sender_id # user_id
           /\ messages[m].deleted_at = NULL
        THEN 1 ELSE 0

RECURSIVE SumUnread(_, _, _)
SumUnread(k, conversation_id, user_id) ==
    IF k = 0 THEN 0
    ELSE UnreadRows(k, conversation_id, user_id) + SumUnread(k - 1, conversation_id, user_id)

\* SELECT COUNT( * ) FROM messages m LEFT JOIN receipts r ON ... (get_conversation)
UnreadCount(conversation_id, user_id) ==
    SumUnread(Len(messages), conversation_id, user_id)

\* Faulty variant: the last-message query without "AND deleted_at IS NULL".
LastMessageRowsIncludingDeleted(conversation_id) ==
    LET all == {m \in MsgIds : messages[m].conversation_id = conversation_id}
    IN  {m \in all : \A k \in all : messages[k].created_at <= messages[m].created_at}

\* SELECT * FROM messages WHERE conversation_id = $1 AND deleted_at IS NULL
\* ORDER BY created_at DESC LIMIT 1: the candidates for the row returned
\* (rows with equal created_at come in an order the database chooses).
LastMessageRows(conversation_id) ==
    LET live == {m \in MsgIds : /\ messages[m].conversation_id = conversation_id
                                /\ messages[m].deleted_at = NULL}
    IN  {m \in live : \A k \in live : messages[k].created_at <= messages[m].created_at}

\* The subquery (SELECT created_at FROM messages WHERE id = $4): NULL when no
\* such message.
CreatedAtOf(before_id) ==
    IF before_id \in MsgIds THEN messages[before_id].created_at ELSE NULL

\* Faulty variant: "created_at <=" in place of "created_at <".
SelectedMessagesInclusive(conversation_id, before) ==
    {m \in MsgIds :
        /\ messages[m].conversation_id = conversation_id
        /\ messages[m].deleted_at = NULL
        /\ \/ before = NULL
           \/ /\ CreatedAtOf(before) # NULL
              /\ messages[m].created_at <= CreatedAtOf(before)}

\* The WHERE clause of get_messages; before = NULL is the branch without it.
\* A comparison with a NULL subquery result is not true, so no row passes.
SelectedMessages(conversation_id, before) ==
    {m \in MsgIds :
        /\ messages[m].conversation_id = conversation_id
        /\ messages[m].deleted_at = NULL
        /\ \/ before = NULL
           \/ /\ CreatedAtOf(before) # NULL
              /\ messages[m].created_at < CreatedAtOf(before)}

\* ORDER BY created_at DESC over a set of rows: every sequence of the rows
\* that is non-increasing in created_at (ties in any order).
OrderedDesc(rows) ==
    {s \in [1..Cardinality(rows) -> rows] :
        /\ \A i, j \in 1..Cardinality(rows) : i # j => s[i] # s[j]
        /\ \A i, j \in 1..Cardinality(rows) :
              i < j => messages[s[i]].created_at >= messages[s[j]].created_at}

\* Faulty variant: LIMIT returns one row fewer than it should.
LimitOffsetDropsLast(s, limit, offset) ==
    SubSeq(s, offset + 1,
           (IF offset + limit < Len(s) THEN offset + limit ELSE Len(s)) - 1)

\* LIMIT $2 OFFSET $3 applied to an ordered result.
LimitOffset(s, limit, offset) ==
    SubSeq(s, offset + 1, IF offset + limit < Len(s) THEN offset + limit ELSE Len(s))

\* Faulty variant: the recipients query without "AND left_at IS NULL".
RecipientsIncludingLeft(conversation_id, sender_id) ==
    {participants[i].user_id : i \in
        {j \in DOMAIN participants :
            /\ participants[j].conversation_id = conversation_id
            /\ participants[j].user_id # sender_id}}

\* Faulty variant: the recipients query without "AND user_id != $2".
RecipientsIncludingSender(conversation_id, sender_id) ==
    {participants[i].user_id : i \in
        {j \in DOMAIN participants :
            /\ participants[j].conversation_id = conversation_id
            /\ participants[j].left_at = NULL}}

\* SELECT user_id FROM participants WHERE conversation_id = $1 AND
\* user_id != $2 AND left_at IS NULL  (notify_participants, broadcast_typing)
Recipients(conversation_id, sender_id) ==
    {participants[i].user_id : i \in
        {j \in DOMAIN participants :
            /\ participants[j].conversation_id = conversation_id
            /\ participants[j].user_id # sender_id
            /\ participants[j].left_at = NULL}}

\* The hub after WsHub::new, no socket upgraded yet, no presence key set.
InitHub ==
    /\ hub = [k \in ClientIds |-> NoSession]
    /\ conn = [s \in Sessions |-> NoConn]
    /\ chan = [s \in Sessions |-> <<>>]
    /\ sub = [s \in Sessions |-> <<>>]
    /\ wire = [s \in Sessions |-> <<>>]
    /\ presence = [u \in Users |-> NoPresence]
    /\ clock = 0
    /\ inbound = 0

Init ==
    /\ conversations = <<>>
    /\ participants = <<>>
    /\ messages = <<>>
    /\ receipts = EmptyBag
    /\ published = {}
    /\ redisUp = TRUE
    /\ now = 0
    /\ pc = [p \in Procs |-> "idle"]
    /\ call = [p \in Procs |-> NoCall]
    /\ ret = [p \in Procs |-> NoRet]
    /\ InitHub

\* ------------------------------------------- statements (INSERT, UPDATE)

\* Faulty variant: the receipt insert without its ON CONFLICT clause.
InsertReceiptNoConflictClause(message_id, user_id, type) ==
    receipts (+) SetToBag({[message_id |-> message_id, user_id |-> user_id, type |-> type]})

\* INSERT INTO receipts (...) VALUES (...) ON CONFLICT (message_id, user_id,
\* type) DO NOTHING
InsertReceipt(message_id, user_id, type) ==
    LET row == [message_id |-> message_id, user_id |-> user_id, type |-> type]
    IN  IF BagIn(row, receipts) THEN receipts ELSE receipts (+) SetToBag({row})

\* Faulty variant: the delivered update without "AND status = 'sent'".
SetDeliveredUnguarded(message_id) ==
    [messages EXCEPT ![message_id].status = "delivered"]

\* UPDATE messages SET status = 'delivered' WHERE id = $1 AND status = 'sent'
SetDelivered(message_id) ==
    [messages EXCEPT ![message_id].status = IF @ = "sent" THEN "delivered" ELSE @]

\* UPDATE messages SET status = 'read' WHERE id = $1 AND status IN ('sent',
\* 'delivered')
SetRead(message_id) ==
    [messages EXCEPT ![message_id].status = IF @ \in {"sent", "delivered"} THEN "read" ELSE @]

\* Faulty variant: the soft delete without "AND sender_id = $2".
DeletableRowsAnySender(message_id, user_id) ==
    {m \in MsgIds : /\ m = message_id
                    /\ messages[m].deleted_at = NULL}

\* The rows matched by UPDATE messages SET deleted_at = NOW() WHERE id = $1
\* AND sender_id = $2 AND deleted_at IS NULL
DeletableRows(message_id, user_id) ==
    {m \in MsgIds : /\ m = message_id
                    /\ messages[m].sender_id = user_id
                    /\ messages[m].deleted_at = NULL}

\* INSERT INTO messages (...) VALUES (..., 'sent') RETURNING *; created_at
\* defaults to NOW().
NewMessage(conversation_id, sender_id) ==
    [conversation_id |-> conversation_id, sender_id |-> sender_id,
     status |-> "sent", deleted_at |-> NULL, created_at |-> now]

\* INSERT INTO participants (id, conversation_id, user_id, role, joined_at)
NewParticipant(conversation_id, user_id, role) ==
    [conversation_id |-> conversation_id, user_id |-> user_id, role |-> role,
     left_at |-> NULL]

\* The two participant rows create_direct_conversation inserts, in the
\* order of its loop over [user_id, other_user_id].
DirectParticipants(conversation_id, user_id, other_user_id) ==
    << NewParticipant(conversation_id, user_id, "member"),
       NewParticipant(conversation_id, other_user_id, "member") >>

\* ------------------------------------------------------ relay (PUBLISH)

\* A connection's relay subscription is live from subscribe to the end of
\* its redis_task.
Subscribed(s) == conn[s].redis_task \in {"listen", "wait"}

\* PUBLISH on messages:{user_id}: the relay hands the event to every live
\* subscription on that topic.
Deliver(user_id, event) ==
    [s \in Sessions |->
        IF Subscribed(s) /\ conn[s].user = user_id THEN Append(sub[s], event)
        ELSE sub[s]]

\* notify_participants' loop: PUBLISH of the new_message event for
\* message_id on the topic of every user of a set.
DeliverAll(users, message_id) ==
    [s \in Sessions |->
        IF Subscribed(s) /\ conn[s].user \in users
        THEN Append(sub[s], NewMessageEvent(conn[s].user, message_id))
        ELSE sub[s]]

\* broadcast_typing's loop: PUBLISH of the typing event on the topic of
\* every user of a set.
DeliverTyping(users, conversation_id, from_id, is_typing) ==
    [s \in Sessions |->
        IF Subscribed(s) /\ conn[s].user \in users
        THEN Append(sub[s], TypingEvent(conn[s].user, conversation_id, from_id, is_typing))
        ELSE sub[s]]

\* The participant rows create_group_conversation inserts: the creator as
\* owner, then one member row per entry of member_ids other than the creator.
GroupParticipants(conversation_id, user_id, member_ids) ==
    LET others == SelectSeq(member_ids, LAMBDA m : m # user_id)
    IN  << NewParticipant(conversation_id, user_id, "owner") >> \o
        [i \in 1..Len(others) |-> NewParticipant(conversation_id, others[i], "member")]

\* ----------------------------------------------------------- handlers

Finish(p, r) ==
    /\ pc' = [pc EXCEPT ![p] = "done"]
    /\ ret' = [ret EXCEPT ![p] = r]

Goto(p, label) ==
    /\ pc' = [pc EXCEPT ![p] = label]
    /\ ret' = ret

InFlight(label) == Cardinality({q \in Procs : pc[q] = label})

\* create_direct_conversation, first statement: the existence check.  An
\* existing conversation goes on to get_conversation(conv.id, user_id); with
\* several matching rows fetch_optional returns any one of them.
CreateDirectCheck(p) ==
    /\ pc[p] = "idle"
    /\ \E user_id \in Users, other_user_id \in Users :
        LET existing == ExistingDirect(user_id, other_user_id)
            c0 == [NoCall EXCEPT !.op = "create_direct", !.user = user_id,
                                 !.other = other_user_id]
        IN  IF existing = {}
            THEN /\ Len(conversations) + InFlight("cd_insert") < MaxConvs
                 /\ call' = [call EXCEPT ![p] = c0]
                 /\ Goto(p, "cd_insert")
            ELSE \E c \in existing :
                 /\ call' = [call EXCEPT ![p] = [c0 EXCEPT !.conv = c]]
                 /\ Goto(p, "gc_check")
    /\ UNCHANGED <<ws, store, published, redisUp, now>>

\* create_direct_conversation, the transaction: INSERT the conversation and
\* its two participant rows, commit; then get_conversation.
CreateDirectInsert(p) ==
    /\ pc[p] = "cd_insert"
    /\ LET conv_id == Len(conversations) + 1
       IN  /\ conversations' = Append(conversations,
                  [type |-> "direct", created_by |-> call[p].user,
                   last_message_at |-> NULL])
           /\ participants' = participants \o
                  DirectParticipants(conv_id, call[p].user, call[p].other)
           /\ call' = [call EXCEPT ![p].conv = conv_id]
    /\ Goto(p, "gc_check")
    /\ UNCHANGED <<ws, messages, receipts, published, redisUp, now>>

\* The member_ids lists of a CreateGroupRequest: any ids, in any order,
\* repeated or not, the caller's own id among them or not.
MemberLists == UNION {[1..n -> Users] : n \in 0..MaxMembers}

\* create_group_conversation, the transaction: INSERT the conversation, the
\* owner row and the member rows, commit; then get_conversation.
CreateGroupInsert(p) ==
    /\ pc[p] = "idle"
    /\ Len(conversations) < MaxConvs
    /\ \E user_id \in Users, member_ids \in MemberLists :
        LET conv_id == Len(conversations) + 1
        IN  /\ conversations' = Append(conversations,
                   [type |-> "group", created_by |-> user_id,
                    last_message_at |-> NULL])
            /\ participants' = participants \o
                   GroupParticipants(conv_id, user_id, member_ids)
            /\ call' = [call EXCEPT ![p] = [NoCall EXCEPT !.op = "create_group",
                            !.user = user_id, !.conv = conv_id,
                            !.members = member_ids]]
    /\ Goto(p, "gc_check")
    /\ UNCHANGED <<ws, messages, receipts, published, redisUp, now>>

\* create_group_conversation: a statement of the transaction fails (the
\* store is unavailable); "?" returns the error, tx is dropped without
\* commit and the rows written so far are rolled back.
CreateGroupInsertFails(p) ==
    /\ pc[p] = "idle"
    /\ \E user_id \in Users, member_ids \in MemberLists :
        call' = [call EXCEPT ![p] = [NoCall EXCEPT !.op = "create_group",
                     !.user = user_id, !.members = member_ids]]
    /\ Finish(p, [NoRet EXCEPT !.status = "Database"])
    /\ UNCHANGED <<ws, store, published, redisUp, now>>

\* get_conversation's participant check, on the arguments in c.
ParticipantCheck(p, c, next) ==
    /\ call' = [call EXCEPT ![p] = c]
    /\ IF IsParticipant(c.conv, c.user)
       THEN Goto(p, next)
       ELSE Finish(p, [NoRet EXCEPT !.status = "NotParticipant"])
    /\ UNCHANGED <<ws, store, published, redisUp, now>>

\* get_conversation called by its REST handler.
GetConversationStart(p) ==
    /\ pc[p] = "idle"
    /\ \E user_id \in Users, conversation_id \in 1..(Len(conversations) + 1) :
        ParticipantCheck(p, [NoCall EXCEPT !.op = "get_conversation",
                                !.user = user_id, !.conv = conversation_id], "gc_read")

\* get_conversation called at the end of create_direct_conversation.
GetConversationCheck(p) ==
    /\ pc[p] = "gc_check"
    /\ ParticipantCheck(p, call[p], "gc_read")

\* get_conversation after the check: the conversation row, the active
\* participants, the unread count and the last message.
GetConversationRead(p) ==
    /\ pc[p] = "gc_read"
    /\ IF call[p].conv \notin ConvIds
       THEN Finish(p, [NoRet EXCEPT !.status = "ConversationNotFound"])
       ELSE \E last \in (IF LastMessageRows(call[p].conv) = {} THEN {0}
                         ELSE LastMessageRows(call[p].conv)) :
            Finish(p, [NoRet EXCEPT !.status = "ok", !.conv = call[p].conv,
                          !.parts = ActiveParticipants(call[p].conv),
                          !.unread = UnreadCount(call[p].conv, call[p].user),
                          !.last = last])
    /\ UNCHANGED <<ws, store, published, redisUp, now, call>>

\* send_message: the participant check (cap bounds the messages table).
SendMessageCheck(p, cap) ==
    /\ pc[p] = "idle"
    /\ \E sender_id \in Users, conversation_id \in 1..(Len(conversations) + 1) :
        /\ IsParticipant(conversation_id, sender_id)
              => Len(messages) + InFlight("sm_insert") < cap
        /\ ParticipantCheck(p, [NoCall EXCEPT !.op = "send_message",
                                   !.user = sender_id, !.conv = conversation_id], "sm_insert")

\* send_message: INSERT INTO messages.
SendMessageInsert(p) ==
    /\ pc[p] = "sm_insert"
    /\ messages' = Append(messages, NewMessage(call[p].conv, call[p].user))
    /\ call' = [call EXCEPT ![p].msg = Len(messages) + 1]
    /\ Goto(p, "sm_update")
    /\ UNCHANGED <<ws, conversations, participants, receipts, published, redisUp, now>>

\* Faulty variant: last_message_at is set to the created_at of the message
\* the call inserted.
SendMessageUpdateFromMessage(p) ==
    /\ pc[p] = "sm_update"
    /\ conversations' = [conversations EXCEPT ![call[p].conv].last_message_at =
                            messages[call[p].msg].created_at]
    /\ Goto(p, "sm_notify")
    /\ UNCHANGED <<ws, participants, messages, receipts, published, redisUp, now, call>>

\* send_message: UPDATE conversations SET last_message_at = NOW().
SendMessageUpdate(p) ==
    /\ pc[p] = "sm_update"
    /\ conversations' = [conversations EXCEPT ![call[p].conv].last_message_at = now]
    /\ Goto(p, "sm_notify")
    /\ UNCHANGED <<ws, participants, messages, receipts, published, redisUp, now, call>>

\* send_message: the INSERT fails (the store is unavailable); "?" returns
\* the error and no row is written.
SendMessageInsertFails(p) ==
    /\ pc[p] = "sm_insert"
    /\ Finish(p, [NoRet EXCEPT !.status = "Database"])
    /\ UNCHANGED <<ws, store, published, redisUp, now, call>>

\* send_message: the UPDATE of last_message_at fails; "?" returns the error.
\* The INSERT before it ran on the pool outside any transaction, so its row
\* stays.
SendMessageUpdateFails(p) ==
    /\ pc[p] = "sm_update"
    /\ Finish(p, [NoRet EXCEPT !.status = "Database"])
    /\ UNCHANGED <<ws, store, published, redisUp, now, call>>

\* send_message: notify_participants publishes new_message to each other
\* active participant in turn; a failing publish_message ends the loop and
\* the call with its error.  With no recipient nothing is published.
SendMessageNotify(p) ==
    /\ pc[p] = "sm_notify"
    /\ LET to == Recipients(call[p].conv, call[p].user)
       IN  IF redisUp \/ to = {}
           THEN /\ published' = published \cup
                       {NewMessageEvent(u, call[p].msg) : u \in to}
                /\ sub' = DeliverAll(to, call[p].msg)
                /\ Finish(p, [NoRet EXCEPT !.status = "ok", !.conv = call[p].conv])
           ELSE /\ UNCHANGED <<published, sub>>
                /\ Finish(p, [NoRet EXCEPT !.status = "Redis"])
    /\ UNCHANGED <<net, store, redisUp, now, call>>

\* get_messages: the participant check.
GetMessagesCheck(p) ==
    /\ pc[p] = "idle"
    /\ \E user_id \in Users, conversation_id \in 1..(Len(conversations) + 1) :
        ParticipantCheck(p, [NoCall EXCEPT !.op = "get_messages",
                                !.user = user_id, !.conv = conversation_id], "gm_select")

\* get_messages: the SELECT, with or without before.
GetMessagesSelect(p, limit, offset, before) ==
    /\ pc[p] = "gm_select"
    /\ \E s \in OrderedDesc(SelectedMessages(call[p].conv, before)) :
        Finish(p, [NoRet EXCEPT !.status = "ok", !.conv = call[p].conv,
                      !.rows = LimitOffset(s, limit, offset),
                      !.limit = limit, !.offset = offset, !.before = before])
    /\ UNCHANGED <<ws, store, published, redisUp, now, call>>

\* Faulty variant: mark_as_delivered updates the status before it inserts
\* the receipt.
MarkDeliveredUpdatesFirst(p) ==
    /\ pc[p] = "idle"
    /\ \E user_id \in Users, message_id \in MsgIds :
        /\ messages' = SetDelivered(message_id)
        /\ call' = [call EXCEPT ![p] = [NoCall EXCEPT !.op = "mark_as_delivered",
                                           !.user = user_id, !.msg = message_id]]
    /\ Goto(p, "md_update")
    /\ UNCHANGED <<ws, conversations, participants, receipts, published, redisUp, now>>

\* mark_as_delivered: the receipt insert.
MarkDeliveredInsert(p) ==
    /\ pc[p] = "idle"
    /\ \E user_id \in Users, message_id \in MsgIds :
        /\ receipts' = InsertReceipt(message_id, user_id, "delivered")
        /\ call' = [call EXCEPT ![p] = [NoCall EXCEPT !.op = "mark_as_delivered",
                                           !.user = user_id, !.msg = message_id]]
    /\ Goto(p, "md_update")
    /\ UNCHANGED <<ws, conversations, participants, messages, published, redisUp, now>>

\* mark_as_delivered: the status update.
MarkDeliveredUpdate(p) ==
    /\ pc[p] = "md_update"
    /\ messages' = SetDelivered(call[p].msg)
    /\ Finish(p, [NoRet EXCEPT !.status = "ok"])
    /\ UNCHANGED <<ws, conversations, participants, receipts, published, redisUp, now, call>>

\* Faulty variant: mark_as_read without its first insert.
MarkReadSkipsDelivered(p) ==
    /\ pc[p] = "idle"
    /\ \E user_id \in Users, message_id \in MsgIds :
        call' = [call EXCEPT ![p] = [NoCall EXCEPT !.op = "mark_as_read",
                                        !.user = user_id, !.msg = message_id]]
    /\ Goto(p, "mr_insert")
    /\ UNCHANGED <<ws, store, published, redisUp, now>>

\* mark_as_read: the delivered receipt insert.
MarkReadInsertDelivered(p) ==
    /\ pc[p] = "idle"
    /\ \E user_id \in Users, message_id \in MsgIds :
        /\ receipts' = InsertReceipt(message_id, user_id, "delivered")
        /\ call' = [call EXCEPT ![p] = [NoCall EXCEPT !.op = "mark_as_read",
                                           !.user = user_id, !.msg = message_id]]
    /\ Goto(p, "mr_insert")
    /\ UNCHANGED <<ws, conversations, participants, messages, published, redisUp, now>>

\* mark_as_read: the read receipt insert.
MarkReadInsertRead(p) ==
    /\ pc[p] = "mr_insert"
    /\ receipts' = InsertReceipt(call[p].msg, call[p].user, "read")
    /\ Goto(p, "mr_update")
    /\ UNCHANGED <<ws, conversations, participants, messages, published, redisUp, now, call>>

\* mark_as_read: the status update.
MarkReadUpdate(p) ==
    /\ pc[p] = "mr_update"
    /\ messages' = SetRead(call[p].msg)
    /\ Finish(p, [NoRet EXCEPT !.status = "ok"])
    /\ UNCHANGED <<ws, conversations, participants, receipts, published, redisUp, now, call>>

\* delete_message: one UPDATE; no row affected is MessageNotFound.
DeleteMessage(p) ==
    /\ pc[p] = "idle"
    /\ \E user_id \in Users, message_id \in 1..(Len(messages) + 1) :
        LET rows == DeletableRows(message_id, user_id)
        IN  /\ messages' = IF rows = {} THEN messages
                           ELSE [messages EXCEPT ![message_id].deleted_at = now]
            /\ call' = [call EXCEPT ![p] = [NoCall EXCEPT !.op = "delete_message",
                                               !.user = user_id, !.msg = message_id]]
            /\ IF rows = {}
               THEN Finish(p, [NoRet EXCEPT !.status = "MessageNotFound"])
               ELSE Finish(p, [NoRet EXCEPT !.status = "ok"])
    /\ UNCHANGED <<ws, conversations, participants, receipts, published, redisUp, now>>

\* broadcast_typing: the recipients query, then the typing event published
\* to each recipient in turn; a failing publish_message ends the loop and
\* the call with its error.  There is no participant check and no write to
\* the store.
BroadcastTyping(p, is_typing) ==
    /\ pc[p] = "idle"
    /\ \E user_id \in Users, conversation_id \in 1..(Len(conversations) + 1) :
        LET to == Recipients(conversation_id, user_id)
        IN  /\ call' = [call EXCEPT ![p] = [NoCall EXCEPT !.op = "broadcast_typing",
                            !.user = user_id, !.conv = conversation_id]]
            /\ IF redisUp \/ to = {}
               THEN /\ published' = published \cup
                           {TypingEvent(u, conversation_id, user_id, is_typing) : u \in to}
                    /\ sub' = DeliverTyping(to, conversation_id, user_id, is_typing)
                    /\ Finish(p, [NoRet EXCEPT !.status = "ok", !.conv = conversation_id])
               ELSE /\ UNCHANGED <<published, sub>>
                    /\ Finish(p, [NoRet EXCEPT !.status = "Redis"])
    /\ UNCHANGED <<net, store, redisUp, now>>

\* The handler's result goes back to the client and the task ends.
Return(p) ==
    /\ pc[p] = "done"
    /\ pc' = [pc EXCEPT ![p] = "idle"]
    /\ call' = [call EXCEPT ![p] = NoCall]
    /\ ret' = [ret EXCEPT ![p] = NoRet]
    /\ UNCHANGED <<ws, store, published, redisUp, now>>

\* ------------------------------------------------- registry, relay, presence

\* Everything the websocket side leaves alone.
rest == <<store, published, redisUp, now, pc, call, ret>>

\* The connections whose client id starts with "user_id:" (send_to_user's
\* filter over the map).
ClientsOf(user_id) ==
    {hub[k] : k \in {c \in ClientIds : c[1] = user_id /\ hub[c] # NoSession}}

\* The Receiver of a connection's channel is owned by its send_task and is
\* dropped when that task ends: a send then fails at once.
ReceiverDropped(s) == conn[s].send_task = "ended"

\* Sender::send completes at once when the channel has room.
HasRoom(s) == Len(chan[s]) < ChanCap

\* WsHub.clients is read-locked by every send_to_user in progress; register
\* and unregister take the write lock.
ReadLocked == \E s \in Sessions : conn[s].recv_task \in {"su", "su_wait"}

\* Faulty variant: the key is given twice the lifetime asked for.
SetUserPresenceLongLived(user_id, status, ttl) ==
    IF redisUp
    THEN [presence EXCEPT ![user_id] = [status |-> status, expires |-> clock + ttl + ttl]]
    ELSE presence

\* RedisClient::set_user_presence: SETEX presence:{user_id}; a failure leaves
\* the key as it is (every caller on the websocket side discards the error).
SetUserPresence(user_id, status, ttl) ==
    IF redisUp
    THEN [presence EXCEPT ![user_id] = [status |-> status, expires |-> clock + ttl]]
    ELSE presence

\* RedisClient::get_user_presence: the value of the key, "offline" when the
\* key is unset or has expired.
GetUserPresence(user_id) ==
    IF presence[user_id].status # "none" /\ clock < presence[user_id].expires
    THEN presence[user_id].status
    ELSE "offline"

\* handle_websocket: the socket of (user_id, device_id) is upgraded and
\* handle_socket starts; it creates the channel.
Connect(s, user_id, device_id) ==
    /\ conn[s].hs = "none"
    /\ conn' = [conn EXCEPT ![s] = [NoConn EXCEPT !.user = user_id,
                   !.device = device_id, !.hs = "register", !.link = "up"]]
    /\ UNCHANGED <<rest, hub, chan, sub, wire, presence, clock, inbound>>

\* Faulty variant: register keeps an entry the key already has.
RegisterKeepsExisting(client_id, s) ==
    IF hub[client_id] = NoSession THEN [hub EXCEPT ![client_id] = s] ELSE hub

\* WsHub::register: clients.insert(client_id, sender).
RegisterClient(client_id, s) == [hub EXCEPT ![client_id] = s]

\* Faulty variant: unregister leaves the map as it is.
UnregisterKeepsEntry(client_id, s) == hub

\* WsHub::unregister: clients.remove(client_id), whatever Sender is stored.
UnregisterClient(client_id, s) == [hub EXCEPT ![client_id] = NoSession]

\* handle_socket: state.ws_hub.register(&client_id, tx.clone()), under the
\* write lock.
Register(s) ==
    /\ conn[s].hs = "register"
    /\ ~ReadLocked
    /\ hub' = RegisterClient(ClientId(conn[s].user, conn[s].device), s)
    /\ conn' = [conn EXCEPT ![s].hs = "presence_on"]
    /\ UNCHANGED <<rest, chan, sub, wire, presence, clock, inbound>>

\* handle_socket: presence online for 300 s, then the three tasks are
\* spawned and handle_socket waits in select!.
PresenceOnline(s) ==
    /\ conn[s].hs = "presence_on"
    /\ presence' = SetUserPresence(conn[s].user, "online", OnlineTTL)
    /\ conn' = [conn EXCEPT ![s].hs = "select", ![s].redis_task = "subscribe",
                            ![s].send_task = "run", ![s].recv_task = "run"]
    /\ UNCHANGED <<rest, hub, chan, sub, wire, clock, inbound>>

\* redis_task: subscribe_messages; on Err the task's body is skipped and the
\* task ends.
Subscribe(s) ==
    /\ conn[s].redis_task = "subscribe"
    /\ conn' = [conn EXCEPT ![s].redis_task = IF redisUp THEN "listen" ELSE "ended"]
    /\ UNCHANGED <<rest, hub, chan, sub, wire, presence, clock, inbound>>

\* Faulty variant: the redis_task takes the next published event and does
\* not forward it.
RelayForwardSkips(s) ==
    /\ conn[s].redis_task = "listen"
    /\ sub[s] # <<>>
    /\ sub' = [sub EXCEPT ![s] = Tail(@)]
    /\ UNCHANGED <<rest, hub, conn, chan, wire, presence, clock, inbound>>

\* redis_task: the next published event is forwarded with
\* tx_clone.send(ws_msg).await: enqueued when the channel has room, dropped
\* when the Receiver is gone, and otherwise the task waits for room.
RelayForward(s) ==
    /\ conn[s].redis_task = "listen"
    /\ sub[s] # <<>>
    /\ IF ReceiverDropped(s)
       THEN /\ sub' = [sub EXCEPT ![s] = Tail(@)]
            /\ UNCHANGED <<chan, conn>>
       ELSE IF HasRoom(s)
       THEN /\ chan' = [chan EXCEPT ![s] = Append(@, Head(sub[s]))]
            /\ sub' = [sub EXCEPT ![s] = Tail(@)]
            /\ conn' = conn
       ELSE /\ conn' = [conn EXCEPT ![s].redis_task = "wait"]
            /\ UNCHANGED <<chan, sub>>
    /\ UNCHANGED <<rest, hub, wire, presence, clock, inbound>>

\* redis_task: a send that waited for room completes, or fails because the
\* Receiver was dropped meanwhile.
RelayForwardResume(s) ==
    /\ conn[s].redis_task = "wait"
    /\ ReceiverDropped(s) \/ HasRoom(s)
    /\ chan' = IF ReceiverDropped(s) THEN chan
               ELSE [chan EXCEPT ![s] = Append(@, Head(sub[s]))]
    /\ sub' = [sub EXCEPT ![s] = Tail(@)]
    /\ conn' = [conn EXCEPT ![s].redis_task = "listen"]
    /\ UNCHANGED <<rest, hub, wire, presence, clock, inbound>>

\* redis_task: the subscription's stream ends (the relay connection is
\* lost); on_message().next() returns None and the task ends.
RelayStreamEnds(s) ==
    /\ conn[s].redis_task = "listen"
    /\ conn' = [conn EXCEPT ![s].redis_task = "ended"]
    /\ sub' = [sub EXCEPT ![s] = <<>>]
    /\ UNCHANGED <<rest, hub, chan, wire, presence, clock, inbound>>

\* Faulty variant: the send loop writes the newest buffered event first.
SendTaskWriteNewest(s) ==
    /\ conn[s].send_task = "run"
    /\ chan[s] # <<>>
    /\ IF conn[s].link = "up"
       THEN /\ wire' = [wire EXCEPT ![s] = <<chan[s][Len(chan[s])]>> \o @]
            /\ chan' = [chan EXCEPT ![s] = SubSeq(@, 1, Len(@) - 1)]
            /\ conn' = conn
       ELSE /\ chan' = [chan EXCEPT ![s] = <<>>]
            /\ conn' = [conn EXCEPT ![s].send_task = "ended"]
            /\ wire' = wire
    /\ UNCHANGED <<rest, hub, sub, presence, clock, inbound>>

\* send_task: rx.recv() yields the next event and ws_sender.send writes it;
\* a failed write breaks the loop, which drops the Receiver and what it
\* still buffers.
SendTaskWrite(s) ==
    /\ conn[s].send_task = "run"
    /\ chan[s] # <<>>
    /\ IF conn[s].link = "up"
       THEN /\ wire' = [wire EXCEPT ![s] = Append(@, Head(chan[s]))]
            /\ chan' = [chan EXCEPT ![s] = Tail(@)]
            /\ conn' = conn
       ELSE /\ chan' = [chan EXCEPT ![s] = <<>>]
            /\ conn' = [conn EXCEPT ![s].send_task = "ended"]
            /\ wire' = wire
    /\ UNCHANGED <<rest, hub, sub, presence, clock, inbound>>

\* The Senders of a connection's channel that are still alive: tx of
\* handle_socket until it returns, the clone in the registry, and tx_clone
\* of the redis_task until that task ends.
SendersAlive(s) ==
    \/ conn[s].hs # "closed"
    \/ \E k \in ClientIds : hub[k] = s
    \/ conn[s].redis_task # "ended"

\* send_task: rx.recv() returns None once the channel is empty and every
\* Sender is dropped; the task ends.
SendTaskEnds(s) ==
    /\ conn[s].send_task = "run"
    /\ chan[s] = <<>>
    /\ ~SendersAlive(s)
    /\ conn' = [conn EXCEPT ![s].send_task = "ended"]
    /\ UNCHANGED <<rest, hub, chan, sub, wire, presence, clock, inbound>>

\* The socket breaks (the peer vanishes, the network fails).
TransportError(s) ==
    /\ conn[s].link = "up"
    /\ conn' = [conn EXCEPT ![s].link = "broken", ![s].broken_at = clock]
    /\ UNCHANGED <<rest, hub, chan, sub, wire, presence, clock, inbound>>

\* recv_task: ws_receiver.next() yields Err (or the stream ends) on a broken
\* socket; the loop breaks and the task ends.
RecvError(s) ==
    /\ conn[s].recv_task = "run"
    /\ conn[s].link = "broken"
    /\ conn' = [conn EXCEPT ![s].recv_task = "ended"]
    /\ UNCHANGED <<rest, hub, chan, sub, wire, presence, clock, inbound>>

\* recv_task: the peer sends a Close frame; the loop breaks.
RecvClose(s) ==
    /\ conn[s].recv_task = "run"
    /\ conn[s].link = "up"
    /\ conn' = [conn EXCEPT ![s].recv_task = "ended"]
    /\ UNCHANGED <<rest, hub, chan, sub, wire, presence, clock, inbound>>

\* recv_task: a "presence" frame; handle_incoming_message sets the presence
\* key to the status it carries for 300 s.
RecvPresence(s, status) ==
    /\ conn[s].recv_task = "run"
    /\ conn[s].link = "up"
    /\ inbound < MaxFrames
    /\ inbound' = inbound + 1
    /\ presence' = SetUserPresence(conn[s].user, status, OnlineTTL)
    /\ UNCHANGED <<rest, hub, conn, chan, sub, wire, clock>>

\* recv_task: a "ping" frame; handle_incoming_message calls
\* hub.send_to_user(user_id, pong), which read-locks the map and iterates
\* over the entries of the user.
RecvPing(s) ==
    /\ conn[s].recv_task = "run"
    /\ conn[s].link = "up"
    /\ inbound < MaxFrames
    /\ inbound' = inbound + 1
    /\ conn' = [conn EXCEPT ![s].recv_task = "su",
                            ![s].todo = ClientsOf(conn[s].user)]
    /\ UNCHANGED <<rest, hub, chan, sub, wire, presence, clock>>

\* The inbound frames that change nothing: a text frame that does not decode
\* to a WsIncomingMessage, and the message types "typing", "ack" and any
\* type the match does not know.
IgnoredFrames == {"undecodable", "typing", "ack", "unknown"}

\* Faulty variant: a frame that is not handled ends the receive loop.
RecvIgnoredBreaks(s, frame) ==
    /\ conn[s].recv_task = "run"
    /\ conn[s].link = "up"
    /\ inbound < MaxFrames
    /\ inbound' = inbound + 1
    /\ conn' = [conn EXCEPT ![s].recv_task =
                   IF frame = "undecodable" THEN "ended" ELSE @]
    /\ UNCHANGED <<rest, hub, chan, sub, wire, presence, clock>>

\* recv_task: a text frame that serde_json does not decode is skipped (the
\* if let Ok has no else); handle_incoming_message only logs a "typing", an
\* "ack" and an unknown type.  The loop takes the next frame.
RecvIgnored(s, frame) ==
    /\ conn[s].recv_task = "run"
    /\ conn[s].link = "up"
    /\ inbound < MaxFrames
    /\ inbound' = inbound + 1
    /\ UNCHANGED <<rest, hub, conn, chan, sub, wire, presence, clock>>

\* send_to_user, one turn of the loop: sender.send(message.clone()).await on
\* the next entry (the map's iteration order is arbitrary).  The result is
\* discarded; with a full channel the call waits, holding the read lock.
SendToUserEnqueue(s) ==
    /\ conn[s].recv_task = "su"
    /\ \E t \in conn[s].todo :
        IF ReceiverDropped(t)
        THEN /\ conn' = [conn EXCEPT ![s].todo = @ \ {t}]
             /\ chan' = chan
        ELSE IF HasRoom(t)
        THEN /\ chan' = [chan EXCEPT ![t] = Append(@, PongEvent(conn[s].user))]
             /\ conn' = [conn EXCEPT ![s].todo = @ \ {t}]
        ELSE /\ conn' = [conn EXCEPT ![s].recv_task = "su_wait", ![s].cur = t]
             /\ chan' = chan
    /\ UNCHANGED <<rest, hub, sub, wire, presence, clock, inbound>>

\* send_to_user: a send that waited for room completes, or fails because
\* the Receiver was dropped meanwhile.
SendToUserResume(s) ==
    /\ conn[s].recv_task = "su_wait"
    /\ LET t == conn[s].cur
       IN  /\ ReceiverDropped(t) \/ HasRoom(t)
           /\ chan' = IF ReceiverDropped(t) THEN chan
                      ELSE [chan EXCEPT ![t] = Append(@, PongEvent(conn[s].user))]
           /\ conn' = [conn EXCEPT ![s].recv_task = "su", ![s].todo = @ \ {t},
                                   ![s].cur = NoSession]
    /\ UNCHANGED <<rest, hub, sub, wire, presence, clock, inbound>>

\* send_to_user after the loop: the event is also published to the relay
\* (the result is discarded) and the call returns, releasing the lock.
SendToUserPublish(s) ==
    /\ conn[s].recv_task = "su"
    /\ conn[s].todo = {}
    /\ IF redisUp
       THEN /\ published' = published \cup {PongEvent(conn[s].user)}
            /\ sub' = Deliver(conn[s].user, PongEvent(conn[s].user))
       ELSE UNCHANGED <<published, sub>>
    /\ conn' = [conn EXCEPT ![s].recv_task = "run"]
    /\ UNCHANGED <<store, redisUp, now, pc, call, ret, hub, chan, wire, presence,
                   clock, inbound>>

\* handle_socket: select! completes when one of the three JoinHandles does.
\* The other two handles are dropped, which detaches their tasks.
Select(s) ==
    /\ conn[s].hs = "select"
    /\ "ended" \in {conn[s].redis_task, conn[s].send_task, conn[s].recv_task}
    /\ conn' = [conn EXCEPT ![s].hs = "unregister"]
    /\ UNCHANGED <<rest, hub, chan, sub, wire, presence, clock, inbound>>

\* handle_socket, cleanup: state.ws_hub.unregister(&client_id), under the
\* write lock.
Unregister(s) ==
    /\ conn[s].hs = "unregister"
    /\ ~ReadLocked
    /\ hub' = UnregisterClient(ClientId(conn[s].user, conn[s].device), s)
    /\ conn' = [conn EXCEPT ![s].hs = "presence_off"]
    /\ UNCHANGED <<rest, chan, sub, wire, presence, clock, inbound>>

\* handle_socket, cleanup: presence offline for 1 s (the result is
\* discarded); handle_socket returns and its tx is dropped.
PresenceOffline(s) ==
    /\ conn[s].hs = "presence_off"
    /\ presence' = SetUserPresence(conn[s].user, "offline", OfflineTTL)
    /\ conn' = [conn EXCEPT ![s].hs = "closed"]
    /\ UNCHANGED <<rest, hub, chan, sub, wire, clock, inbound>>

\* The relay's clock advances; presence keys past their expiry read as unset.
ClockTick ==
    /\ clock < MaxClock
    /\ clock' = clock + 1
    /\ UNCHANGED <<rest, hub, conn, chan, sub, wire, presence, inbound>>

\* ------------------------------------------------------------ environment

\* The database clock advances.
Tick ==
    /\ now < MaxTime
    /\ now' = now + 1
    /\ UNCHANGED <<ws, store, published, redisUp, pc, call, ret>>

\* A participant leaves: left_at is set on an active membership row.
LeaveConversation ==
    /\ \E i \in DOMAIN participants :
        /\ participants[i].left_at = NULL
        /\ participants' = [participants EXCEPT ![i].left_at = now]
    /\ UNCHANGED <<ws, conversations, messages, receipts, published, redisUp, now, pc, call, ret>>

\* The relay becomes unavailable: publish_message returns an error.
RedisFails ==
    /\ redisUp
    /\ redisUp' = FALSE
    /\ UNCHANGED <<ws, store, published, now, pc, call, ret>>

\* The relay is available again.
RedisRecovers ==
    /\ ~redisUp
    /\ redisUp' = TRUE
    /\ UNCHANGED <<ws, store, published, now, pc, call, ret>>

\* ------------------------------------------------------- specifications

CreateDirect(p) ==
    \/ CreateDirectCheck(p)
    \/ CreateDirectInsert(p)
    \/ GetConversationCheck(p)

GetConversation(p) ==
    \/ GetConversationStart(p)
    \/ GetConversationRead(p)

SendMessage(p, cap) ==
    \/ SendMessageCheck(p, cap)
    \/ SendMessageInsert(p)
    \/ SendMessageUpdate(p)
    \/ SendMessageNotify(p)

\* before is no message, a message of the store, or an id the store lacks.
GetMessages(p) ==
    \/ GetMessagesCheck(p)
    \/ \E limit \in 0..MaxLimit, offset \in 0..1,
          before \in {NULL} \cup (1..(Len(messages) + 1)) :
          GetMessagesSelect(p, limit, offset, before)

MarkDelivered(p) ==
    \/ MarkDeliveredInsert(p)
    \/ MarkDeliveredUpdate(p)

MarkRead(p) ==
    \/ MarkReadInsertDelivered(p)
    \/ MarkReadInsertRead(p)
    \/ MarkReadUpdate(p)

\* The whole service: every handler, on every task, from the empty store.
Next ==
    \/ \E p \in Procs :
        \/ CreateDirect(p)
        \/ GetConversation(p)
        \/ SendMessage(p, MaxHistory)
        \/ GetMessages(p)
        \/ MarkDelivered(p)
        \/ MarkRead(p)
        \/ SendMessageInsertFails(p)
        \/ SendMessageUpdateFails(p)
        \/ DeleteMessage(p)
        \/ CreateGroupInsert(p)
        \/ CreateGroupInsertFails(p)
        \/ \E is_typing \in BOOLEAN : BroadcastTyping(p, is_typing)
        \/ Return(p)
    \/ Tick
    \/ LeaveConversation
    \/ RedisFails
    \/ RedisRecovers

Spec == Init /\ [][Next]_vars

\* The specifications below are the service under one workload each: the
\* handlers a set of clients calls, from the empty store or from InitChat.

\* Clients that create direct conversations, concurrently.
ConvNext ==
    \/ \E p \in Procs : CreateDirect(p) \/ GetConversationRead(p) \/ Return(p)
    \/ LeaveConversation

ConvSpec == Init /\ [][ConvNext]_vars

\* Clients that create direct conversations, one call at a time.
ConvSeqNext ==
    \/ CreateDirect("p1") \/ GetConversationRead("p1") \/ Return("p1")
    \/ LeaveConversation

ConvSeqSpec == Init /\ [][ConvSeqNext]_vars

\* The store once create_direct_conversation(u1, u2) has returned: one direct
\* conversation between u1 and u2, no message yet.  u3 is in no conversation.
InitChat ==
    /\ conversations = <<[type |-> "direct", created_by |-> "u1", last_message_at |-> NULL]>>
    /\ participants = DirectParticipants(1, "u1", "u2")
    /\ messages = <<>>
    /\ receipts = EmptyBag
    /\ published = {}
    /\ redisUp = TRUE
    /\ now = 0
    /\ pc = [p \in Procs |-> "idle"]
    /\ call = [p \in Procs |-> NoCall]
    /\ ret = [p \in Procs |-> NoRet]
    /\ InitHub

\* Clients that send messages and acknowledge them, concurrently.
ReceiptNext ==
    \E p \in Procs :
        SendMessage(p, MaxMsgs) \/ MarkDelivered(p) \/ MarkRead(p) \/ Return(p)

ReceiptSpec == InitChat /\ [][ReceiptNext]_vars

\* A client that sends, acknowledges and deletes messages and reads the
\* conversation's details, one call at a time.
UnreadNext ==
    \/ SendMessage("p1", MaxMsgs) \/ MarkDelivered("p1") \/ MarkRead("p1")
    \/ DeleteMessage("p1") \/ GetConversation("p1") \/ Return("p1")

UnreadSpec == InitChat /\ [][UnreadNext]_vars

\* A client that sends messages and reads the conversation and its history,
\* one call at a time, while members leave and the relay comes and goes.
AuthNext ==
    \/ SendMessage("p1", MaxMsgs) \/ GetConversation("p1") \/ GetMessages("p1")
    \/ Return("p1")
    \/ LeaveConversation
    \/ RedisFails
    \/ RedisRecovers

AuthSpec == InitChat /\ [][AuthNext]_vars

\* A client that sends and deletes messages and pages through the history,
\* one call at a time, while time passes.
HistoryNext ==
    \/ SendMessage("p1", MaxHistory) \/ DeleteMessage("p1") \/ GetMessages("p1")
    \/ Return("p1")
    \/ Tick

HistorySpec == InitChat /\ [][HistoryNext]_vars

\* A client that sends messages while two clients page through the
\* history, concurrently, while time passes.
PagingNext ==
    \/ SendMessage("p1", MaxHistory)
    \/ \E p \in Procs : GetMessages(p) \/ Return(p)
    \/ Tick

PagingSpec == InitChat /\ [][PagingNext]_vars

\* A client that sends messages and marks them as delivered while another
\* marks them as read, concurrently.
StatusNext ==
    \/ SendMessage("p1", MaxMsgs) \/ MarkDelivered("p1") \/ Return("p1")
    \/ MarkRead("p2") \/ Return("p2")

StatusSpec == InitChat /\ [][StatusNext]_vars

\* A client that sends messages while clients mark them as read,
\* concurrently.
ReadNext ==
    \/ SendMessage("p1", MaxMsgs)
    \/ \E p \in Procs : MarkRead(p) \/ Return(p)

ReadSpec == InitChat /\ [][ReadNext]_vars

\* Clients that send messages, concurrently, while time passes.
ClockNext ==
    \/ \E p \in Procs : SendMessage(p, MaxHistory) \/ Return(p)
    \/ Tick

ClockSpec == InitChat /\ [][ClockNext]_vars

\* A client that sends, acknowledges and deletes messages and reads the
\* conversation's details and its history, one call at a time.
AuditNext ==
    \/ SendMessage("p1", MaxHistory) \/ MarkDelivered("p1") \/ DeleteMessage("p1")
    \/ GetConversation("p1") \/ GetMessages("p1") \/ Return("p1")

AuditSpec == InitChat /\ [][AuditNext]_vars

\* Clients that send messages and read the conversation, concurrently, while
\* statements of send_message may fail in the store.
StoreFailNext ==
    \E p \in Procs :
        \/ SendMessage(p, MaxMsgs)
        \/ SendMessageInsertFails(p)
        \/ SendMessageUpdateFails(p)
        \/ GetConversation(p)
        \/ Return(p)

StoreFailSpec == InitChat /\ [][StoreFailNext]_vars

\* The store once create_group_conversation(u1, [u2, u3]) has returned: one
\* group conversation of the three users, no message yet.
InitGroup ==
    /\ conversations = <<[type |-> "group", created_by |-> "u1", last_message_at |-> NULL]>>
    /\ participants = GroupParticipants(1, "u1", <<"u2", "u3">>)
    /\ messages = <<>>
    /\ receipts = EmptyBag
    /\ published = {}
    /\ redisUp = TRUE
    /\ now = 0
    /\ pc = [p \in Procs |-> "idle"]
    /\ call = [p \in Procs |-> NoCall]
    /\ ret = [p \in Procs |-> NoRet]
    /\ InitHub

\* A client that creates group conversations, one call at a time, while the
\* store may fail.
GroupNext ==
    \/ CreateGroupInsert("p1")
    \/ CreateGroupInsertFails("p1")
    \/ GetConversationCheck("p1")
    \/ GetConversationRead("p1")
    \/ Return("p1")

GroupSpec == Init /\ [][GroupNext]_vars

\* A client that sends messages and "is typing" signals to the group and
\* reads it, one call at a time, while members leave.
MembershipNext ==
    \/ BroadcastTyping("p1", TRUE) \/ SendMessage("p1", MaxMsgs)
    \/ GetConversation("p1") \/ GetMessages("p1") \/ Return("p1")
    \/ LeaveConversation

MembershipSpec == InitGroup /\ [][MembershipNext]_vars

\* A client that sends "is typing" signals and messages to the group, one
\* call at a time, while members leave and the relay comes and goes.
TypingNext ==
    \/ BroadcastTyping("p1", TRUE) \/ SendMessage("p1", MaxMsgs)
    \/ Return("p1")
    \/ LeaveConversation
    \/ RedisFails
    \/ RedisRecovers

TypingSpec == InitGroup /\ [][TypingNext]_vars

\* Two devices connect and break off while a client sends a message to the
\* group; the relay is up.  The devices are of u2 both, or of two users.
\* A channel holds at least as many events as there are messages, so no
\* forward ever waits for room.
FanoutNext ==
    \/ \E u \in {"u1", "u2"} : Connect("s1", u, 1)
    \/ \E u \in {"u2", "u3"} : Connect("s2", u, 2)
    \/ \E s \in Sessions :
        \/ Register(s)
        \/ PresenceOnline(s)
        \/ Subscribe(s)
        \/ RelayForward(s)
        \/ SendTaskWrite(s)
        \/ TransportError(s)
        \/ RecvError(s)
        \/ Select(s)
        \/ Unregister(s)
        \/ PresenceOffline(s)
    \/ SendMessage("p1", MaxMsgs)
    \/ Return("p1")

FanoutSpec == InitGroup /\ [][FanoutNext]_vars

\* What the runtime guarantees to the relay path of a connection: its
\* redis_task and its send_task run when they can.
RelayFair(s) ==
    /\ WF_vars(RelayForward(s) \/ RelayForwardResume(s))
    /\ WF_vars(SendTaskWrite(s))

\* Devices of u2 and u3 connect and break off while a client on another
\* process sends a message to the group; the relay is up and keeps its
\* subscriptions, and a channel holds at least as many events as there are
\* messages, so it is never full.
RelayNext ==
    \/ Connect("s1", "u2", 1)
    \/ Connect("s2", "u3", 1)
    \/ \E s \in Sessions :
        \/ Register(s)
        \/ PresenceOnline(s)
        \/ Subscribe(s)
        \/ RelayForward(s)
        \/ SendTaskWrite(s)
        \/ TransportError(s)
        \/ RecvError(s)
        \/ Select(s)
        \/ Unregister(s)
        \/ PresenceOffline(s)
    \/ SendMessage("p1", MaxMsgs)
    \/ Return("p1")

RelayLive == InitGroup /\ [][RelayNext]_vars /\ \A s \in Sessions : RelayFair(s)

\* A device of u1 connects, reconnects under the same client id, pings and
\* breaks off; the relay is up.
RegistryNext ==
    \/ \E s \in Sessions :
        \/ Connect(s, "u1", 1)
        \/ Register(s)
        \/ PresenceOnline(s)
        \/ Subscribe(s)
        \/ RelayForward(s)
        \/ RelayForwardResume(s)
        \/ SendTaskWrite(s)
        \/ RecvPing(s)
        \/ SendToUserEnqueue(s)
        \/ SendToUserResume(s)
        \/ SendToUserPublish(s)
        \/ TransportError(s)
        \/ RecvError(s)
        \/ Select(s)
        \/ Unregister(s)
        \/ PresenceOffline(s)

RegistrySpec == Init /\ [][RegistryNext]_vars

\* Two devices of u1 connect, ping, send frames the server does not act
\* on, and break off; the relay is up.
IgnoreNext ==
    \/ Connect("s1", "u1", 1)
    \/ Connect("s2", "u1", 2)
    \/ \E s \in Sessions :
        \/ Register(s)
        \/ PresenceOnline(s)
        \/ Subscribe(s)
        \/ RelayForward(s)
        \/ RelayForwardResume(s)
        \/ SendTaskWrite(s)
        \/ RecvPing(s)
        \/ \E frame \in IgnoredFrames : RecvIgnored(s, frame)
        \/ SendToUserEnqueue(s)
        \/ SendToUserResume(s)
        \/ SendToUserPublish(s)
        \/ TransportError(s)
        \/ RecvError(s)
        \/ Select(s)
        \/ Unregister(s)
        \/ PresenceOffline(s)

IgnoreSpec == Init /\ [][IgnoreNext]_vars

\* Devices of u2 and u3 connect and break off while a client sends
\* messages to the group; the relay is up.
OutboundNext ==
    \/ Connect("s1", "u2", 1)
    \/ Connect("s2", "u3", 1)
    \/ \E s \in Sessions :
        \/ Register(s)
        \/ PresenceOnline(s)
        \/ Subscribe(s)
        \/ RelayForward(s)
        \/ RelayForwardResume(s)
        \/ SendTaskWrite(s)
        \/ TransportError(s)
        \/ RecvError(s)
        \/ Select(s)
        \/ Unregister(s)
        \/ PresenceOffline(s)
    \/ SendMessage("p1", MaxHistory)
    \/ Return("p1")

OutboundSpec == InitGroup /\ [][OutboundNext]_vars

\* handle_socket and the ends of its tasks, for a connection that exists:
\* the socket breaks or the peer closes it once the tasks are spawned.
SessionCore(s) ==
    \/ Register(s)
    \/ PresenceOnline(s)
    \/ Subscribe(s)
    \/ RelayStreamEnds(s)
    \/ SendTaskEnds(s)
    \/ conn[s].recv_task # "off" /\ TransportError(s)
    \/ RecvError(s)
    \/ RecvClose(s)
    \/ Select(s)
    \/ Unregister(s)
    \/ PresenceOffline(s)

\* The events of a connection: pings, their pongs, and the relay's events
\* on their way to the socket.
SessionTraffic(s) ==
    \/ RecvPing(s)
    \/ SendToUserEnqueue(s)
    \/ SendToUserResume(s)
    \/ SendToUserPublish(s)
    \/ RelayForward(s)
    \/ RelayForwardResume(s)
    \/ SendTaskWrite(s)

\* What the runtime and the socket guarantee to a connection: a task that
\* can run does run (tokio schedules every ready task), a broken socket
\* reports its error to the receive loop, and a write to the socket
\* completes or fails.
SessionFair(s) ==
    /\ WF_vars(Select(s) \/ Unregister(s) \/ PresenceOffline(s))
    /\ WF_vars(RecvError(s))
    /\ WF_vars(SendToUserEnqueue(s) \/ SendToUserResume(s) \/ SendToUserPublish(s))
    /\ WF_vars(SendTaskWrite(s))

\* One connection of (u1, device 1), from upgrade to the end of its tasks,
\* with pings, while the relay comes and goes.
SessionNext ==
    \/ Connect("s1", "u1", 1)
    \/ SessionCore("s1")
    \/ SessionTraffic("s1")
    \/ RedisFails
    \/ RedisRecovers

SessionSpec == Init /\ [][SessionNext]_vars

\* The same under the guarantees of the runtime.
SessionLive == SessionSpec /\ SessionFair("s1")

\* One connection of (u1, device 1) that also sets its user's presence,
\* while time passes and the relay comes and goes.
PresenceNext ==
    \/ Connect("s1", "u1", 1)
    \/ SessionCore("s1")
    \/ RecvPresence("s1", "away")
    \/ ClockTick
    \/ RedisFails
    \/ RedisRecovers

PresenceLive == Init /\ [][PresenceNext]_vars /\ SessionFair("s1")

\* ----------------------------------------------------------- properties

\* Membership as the data model defines it: user u has a participant row of
\* conversation c whose left_at is not set.
ActiveMember(c, u) ==
    \E i \in DOMAIN participants :
        /\ participants[i].conversation_id = c
        /\ participants[i].user_id = u
        /\ participants[i].left_at = NULL

ActiveSet(c) == {u \in Users : ActiveMember(c, u)}

\* The direct conversations whose active participants are exactly {a, b}.
DirectBetween(a, b) ==
    {c \in ConvIds : conversations[c].type = "direct" /\ ActiveSet(c) = {a, b}}

Done(p, op) == pc[p] = "done" /\ call[p].op = op

\* C1: with calls made one at a time, there is at most one direct
\* conversation whose active participants are a given pair of distinct
\* users, and a create_direct_conversation(A, B) that succeeds while both
\* are still active in the conversation it returns has returned that one
\* conversation, whichever end called and however often.
C1_CreateDirectIdempotent ==
    /\ \A a, b \in Users : a # b => Cardinality(DirectBetween(a, b)) <= 1
    /\ \A p \in Procs :
        ( /\ Done(p, "create_direct")
          /\ ret[p].status = "ok"
          /\ call[p].user # call[p].other
          /\ ActiveMember(ret[p].conv, call[p].user)
          /\ ActiveMember(ret[p].conv, call[p].other) )
        => DirectBetween(call[p].user, call[p].other) = {ret[p].conv}

\* A call from the other end has returned the conversation the first end
\* created, and the store still holds that one conversation only.
C1_Witness ==
    \E p \in Procs :
        /\ Done(p, "create_direct")
        /\ ret[p].status = "ok"
        /\ call[p].user # call[p].other
        /\ Len(conversations) = 1
        /\ ret[p].conv = 1
        /\ conversations[1].created_by = call[p].other
        /\ DirectBetween(call[p].user, call[p].other) = {1}

\* C2: under concurrent create_direct_conversation calls there is never
\* more than one direct conversation whose active participants are a given
\* pair of distinct users, and no call ends in an error (a caller who is
\* still an active participant of the conversation gets it back).
C2_NoDuplicateDirect ==
    /\ \A a, b \in Users : a # b => Cardinality(DirectBetween(a, b)) <= 1
    /\ \A p \in Procs :
        (Done(p, "create_direct") /\ ActiveMember(call[p].conv, call[p].user))
        => ret[p].status = "ok"

\* C3: no step of any interleaving of mark_as_delivered and mark_as_read
\* calls lowers the status rank (sent < delivered < read) of a message; a
\* message that is read stays read.
C3_StatusNeverRegresses ==
    [][\A m \in MsgIds :
          StatusRank(messages'[m].status) >= StatusRank(messages[m].status)]_vars

\* A mark_as_delivered call has run to its end on a message that is read.
C3_Witness ==
    \E p \in Procs :
        /\ Done(p, "mark_as_delivered")
        /\ messages[call[p].msg].status = "read"

\* The receipt row a mark call records last: its own kind.
OwnReceipt(p) ==
    [message_id |-> call[p].msg, user_id |-> call[p].user,
     type |-> IF call[p].op = "mark_as_read" THEN "read" ELSE "delivered"]

\* Unread count as the data model defines it: the messages of c that are
\* not deleted, come from another sender and have no read receipt from u.
Unread(c, u) ==
    Cardinality({m \in MsgIds :
        /\ messages[m].conversation_id = c
        /\ messages[m].deleted_at = NULL
        /\ messages[m].sender_id # u
        /\ ~BagIn([message_id |-> m, user_id |-> u, type |-> "read"], receipts)})

MarkOps == {"mark_as_delivered", "mark_as_read"}

\* C4: the store never holds two receipt rows for one (message, user,
\* kind); every mark call returns success; and a step of a mark call whose
\* receipt is already recorded changes neither the receipts nor the unread
\* count of any user.
C4_ReceiptIdempotent ==
    /\ [](\A r \in BagToSet(receipts) : CopiesIn(r, receipts) = 1)
    /\ [](\A p \in Procs : (pc[p] = "done" /\ call[p].op \in MarkOps) => ret[p].status = "ok")
    /\ [][\A p \in Procs :
            ( /\ pc'[p] # pc[p]
              /\ call'[p].op \in MarkOps
              /\ BagIn([message_id |-> call'[p].msg, user_id |-> call'[p].user,
                        type |-> IF call'[p].op = "mark_as_read" THEN "read"
                                 ELSE "delivered"], receipts) )
            => /\ receipts' = receipts
               /\ \A c \in ConvIds, u \in Users : Unread(c, u)' = Unread(c, u)]_vars

\* Two calls have recorded the same receipt and both have returned.
C4_Witness ==
    \E p, q \in Procs :
        /\ p # q
        /\ pc[p] = "done" /\ pc[q] = "done"
        /\ call[p].op \in MarkOps
        /\ call[p] = call[q]
        /\ CopiesIn(OwnReceipt(p), receipts) = 1

AuthOps == {"send_message", "get_messages", "get_conversation"}

\* C6: send_message, get_messages and get_conversation called by a user
\* with no active participation in the conversation end at once with
\* NotParticipant, and that step creates no message, leaves last_message_at
\* as it is and publishes nothing; a send_message that returned
\* NotParticipant has inserted no message.
C6_NotParticipant ==
    /\ [][\A p \in Procs :
            ( /\ pc[p] = "idle"
              /\ pc'[p] # "idle"
              /\ call'[p].op \in AuthOps
              /\ ~ActiveMember(call'[p].conv, call'[p].user) )
            => /\ pc'[p] = "done"
               /\ ret'[p].status = "NotParticipant"
               /\ messages' = messages
               /\ conversations' = conversations
               /\ published' = published]_vars
    /\ [](\A p \in Procs :
            (Done(p, "send_message") /\ ret[p].status = "NotParticipant")
            => call[p].msg = 0)

\* A user who left the conversation has been refused by send_message.
C6_Witness ==
    \E p \in Procs :
        /\ Done(p, "send_message")
        /\ ret[p].status = "NotParticipant"
        /\ \E i \in DOMAIN participants :
            /\ participants[i].conversation_id = call[p].conv
            /\ participants[i].user_id = call[p].user
            /\ participants[i].left_at # NULL

\* C7: a mark_as_delivered or mark_as_read call by a user who is not an
\* active participant of the message's conversation returns NotParticipant
\* and records no receipt for that user.
C7_MarkByNonParticipant ==
    \A p \in Procs :
        ( /\ pc[p] = "done"
          /\ call[p].op \in MarkOps
          /\ ~ActiveMember(messages[call[p].msg].conversation_id, call[p].user) )
        => /\ ret[p].status = "NotParticipant"
           /\ ~BagIn(OwnReceipt(p), receipts)

\* C8: no receipt exists whose user is the sender of its message, and a
\* sender's mark call on their own message never changes its status.
C8_NoReceiptBySender ==
    /\ [](\A r \in BagToSet(receipts) : r.user_id # messages[r.message_id].sender_id)
    /\ [][\A p \in Procs :
            ( /\ pc'[p] # pc[p]
              /\ call'[p].op \in MarkOps
              /\ call'[p].user = messages[call'[p].msg].sender_id )
            => messages'[call'[p].msg].status = messages[call'[p].msg].status]_vars

\* The messages of conversation c that are not deleted and strictly older
\* than message b.
OlderThan(c, b) ==
    {m \in MsgIds :
        /\ messages[m].conversation_id = c
        /\ messages[m].deleted_at = NULL
        /\ messages[m].created_at < messages[b].created_at}

Range(s) == {s[i] : i \in DOMAIN s}

\* C9: get_messages with before = M and offset 0 returns no message whose
\* created_at is at or after M's, and with a limit no smaller than the
\* number of eligible messages it returns every non-deleted message of the
\* conversation strictly older than M.
C9_BeforeIsStrict ==
    \A p \in Procs :
        ( /\ Done(p, "get_messages")
          /\ ret[p].status = "ok"
          /\ ret[p].before \in MsgIds
          /\ ret[p].offset = 0 )
        => /\ \A m \in Range(ret[p].rows) :
                  messages[m].created_at < messages[ret[p].before].created_at
           /\ ret[p].limit >= Cardinality(OlderThan(call[p].conv, ret[p].before))
                  => Range(ret[p].rows) = OlderThan(call[p].conv, ret[p].before)

\* get_messages with before = M has returned the one older message while
\* the conversation also holds M itself.
C9_Witness ==
    \E p \in Procs :
        /\ Done(p, "get_messages")
        /\ ret[p].status = "ok"
        /\ ret[p].before \in MsgIds
        /\ ret[p].offset = 0
        /\ Len(ret[p].rows) = 1
        /\ messages[ret[p].before].conversation_id = call[p].conv
        /\ messages[ret[p].before].deleted_at = NULL

\* C10: once mark_as_read has returned for a message, its status is read
\* and it counts as unread neither for the reader nor for its sender (so in
\* a conversation holding that one message both unread counts are 0); and
\* the insert of a send_message leaves the sender's unread count as it was.
C10_ReadScenario ==
    /\ [](\A p \in Procs :
            Done(p, "mark_as_read") =>
                LET m == call[p].msg
                    c == messages[m].conversation_id
                IN  /\ messages[m].status = "read"
                    /\ UnreadRows(m, c, call[p].user) = 0
                    /\ UnreadRows(m, c, messages[m].sender_id) = 0
                    /\ Len(messages) = 1 =>
                          /\ UnreadCount(c, call[p].user) = 0
                          /\ UnreadCount(c, messages[m].sender_id) = 0)
    /\ [][\A p \in Procs :
            (pc[p] = "sm_insert" /\ pc'[p] = "sm_update")
            => UnreadCount(call[p].conv, call[p].user)'
                   = UnreadCount(call[p].conv, call[p].user)]_vars

\* u1 has sent the message, u2 has a delivered and a read receipt for it,
\* u2's mark_as_read has returned, and both unread counts are 0.
C10_Witness ==
    \E p \in Procs :
        /\ Done(p, "mark_as_read")
        /\ call[p].user = "u2"
        /\ messages[call[p].msg].sender_id = "u1"
        /\ messages[call[p].msg].status = "read"
        /\ BagIn([message_id |-> call[p].msg, user_id |-> "u2", type |-> "delivered"], receipts)
        /\ BagIn([message_id |-> call[p].msg, user_id |-> "u2", type |-> "read"], receipts)
        /\ UnreadCount(1, "u1") = 0
        /\ UnreadCount(1, "u2") = 0

\* The messages of conversation c that are not soft-deleted.
LiveMessages(c) ==
    {m \in MsgIds : messages[m].conversation_id = c /\ messages[m].deleted_at = NULL}

\* C12: get_messages called by an active participant, from the newest
\* message on and with a limit that covers the conversation, returns every
\* message of the conversation that is persisted and not soft-deleted, and
\* no other; a message leaves the result only by being soft-deleted.
C12_PersistedIsListed ==
    \A p \in Procs :
        ( /\ Done(p, "get_messages")
          /\ ret[p].status = "ok"
          /\ ret[p].before = NULL
          /\ ret[p].offset = 0
          /\ ret[p].limit >= Cardinality(LiveMessages(call[p].conv)) )
        => Range(ret[p].rows) = LiveMessages(call[p].conv)

\* u2 has listed the conversation and got a message u1 sent, while another
\* message of the conversation is soft-deleted and absent from the result.
C12_Witness ==
    \E p \in Procs :
        /\ Done(p, "get_messages")
        /\ ret[p].status = "ok"
        /\ ret[p].before = NULL
        /\ ret[p].offset = 0
        /\ call[p].user = "u2"
        /\ \E m \in Range(ret[p].rows) : messages[m].sender_id = "u1"
        /\ \E m \in MsgIds : /\ messages[m].conversation_id = call[p].conv
                              /\ messages[m].deleted_at # NULL
                              /\ m \notin Range(ret[p].rows)

\* C17: a send_message whose message insert and last_message_at update both
\* succeeded returns success, whether or not the relay accepted the
\* new_message events.
C17_PublishFailureNotSurfaced ==
    \A p \in Procs :
        ( /\ Done(p, "send_message")
          /\ call[p].msg \in MsgIds
          /\ ret[p].status # "Database" )
        => ret[p].status = "ok"

\* C18: when send_message returns a store failure, the store holds no
\* message written by that call.
C18_FailedSendLeavesNoMessage ==
    \A p \in Procs :
        (Done(p, "send_message") /\ ret[p].status = "Database")
        => call[p].msg \notin MsgIds

\* Number of new_message events for message m in a sequence of events.
CountIn(events, m) ==
    Cardinality({i \in DOMAIN events :
        events[i].type = "new_message" /\ events[i].msg = m})

\* The new_message events for m a connection holds or has written: those
\* its subscription received, those in its channel, those on its socket.
Received(s, m) == CountIn(sub[s], m) + CountIn(chan[s], m) + CountIn(wire[s], m)

\* Connection s is the registry's entry for its (user, device).
Registered(s) ==
    conn[s].hs # "none" /\ hub[ClientId(conn[s].user, conn[s].device)] = s

C14_UnregisterKeepsNewer ==
    [][\A s \in Sessions :
          (conn[s].hs = "unregister" /\ conn'[s].hs = "presence_off")
          => \A k \in ClientIds : hub[k] \notin {s, NoSession} => hub'[k] = hub[k]]_vars

\* C15: the registry holds at most one connection per client id; when
\* register returns, the entry of the key is the registering connection,
\* whatever it held before; and send_to_user enqueues an event only on the
\* channels of connections that are the registry's entry for their key,
\* never on the channel of a connection whose entry was replaced.
C15_RegisterReplaces ==
    /\ [](\A k \in ClientIds :
            Cardinality({s \in Sessions : hub[k] = s}) <= 1)
    /\ [][\A s \in Sessions :
            (conn[s].hs = "register" /\ conn'[s].hs = "presence_on")
            => /\ hub'[ClientId(conn[s].user, conn[s].device)] = s
               /\ \A t \in Sessions \ {s} : \A k \in ClientIds : hub'[k] = t => hub[k] = t]_vars
    /\ [][\A t \in Sessions :
            (Len(chan'[t]) > Len(chan[t]) /\ sub' = sub)
            => Registered(t) /\ Registered(t)']_vars

\* A second connection has registered under the client id of a first one
\* that is still waiting in select!, and a later ping's pong was enqueued
\* on the second connection's channel only.
C15_Witness ==
    \E s, t \in Sessions :
        /\ s # t
        /\ conn[s].hs = "select"
        /\ conn[t].hs = "select"
        /\ ClientId(conn[s].user, conn[s].device) = ClientId(conn[t].user, conn[t].device)
        /\ Registered(t)
        /\ published = {}
        /\ chan[t] = <<PongEvent(conn[t].user)>>
        /\ chan[s] = <<>> /\ wire[s] = <<>>

\* C16: no producer ever waits on a connection's channel: a send_to_user
\* turn or a relay forward that finds the channel full or closed drops the
\* event and goes on (to the next device, to the next published event).
C16_FullChannelDrops ==
    \A s \in Sessions :
        /\ conn[s].recv_task # "su_wait"
        /\ conn[s].redis_task # "wait"

\* handle_socket's positions in the order it passes them.
HsRank(hs) ==
    CASE hs = "none" -> 0
      [] hs = "register" -> 1
      [] hs = "presence_on" -> 2
      [] hs = "select" -> 3
      [] hs = "unregister" -> 4
      [] hs = "presence_off" -> 5
      [] hs = "closed" -> 6

\* The connection's user has no other connection.
OnlyConnectionOfUser(s) ==
    \A t \in Sessions \ {s} : conn[t].hs = "none" \/ conn[t].user # conn[s].user

\* C13: a connection whose socket has broken is eventually closed and out
\* of the registry, and stays out, so that no registry delivery reaches it;
\* and from one online lifetime after the break on, the presence of its
\* user (who has no other connection) reads offline.
C13_BrokenConnectionCleanedUp ==
    /\ \A s \in Sessions :
          (conn[s].link = "broken") ~> (conn[s].hs = "closed" /\ ~Registered(s))
    /\ [](\A s \in Sessions :
            conn[s].hs = "closed" => s \notin ClientsOf(conn[s].user))
    /\ [](\A s \in Sessions :
            ( /\ conn[s].link = "broken"
              /\ OnlyConnectionOfUser(s)
              /\ clock >= conn[s].broken_at + OnlineTTL )
            => GetUserPresence(conn[s].user) = "offline")

\* A connection's socket broke, its cleanup could not write the offline
\* key, and one online lifetime later the key it had set has expired.
C13_Witness ==
    \E s \in Sessions :
        /\ conn[s].link = "broken"
        /\ conn[s].hs = "closed"
        /\ ~Registered(s)
        /\ clock >= conn[s].broken_at + OnlineTTL
        /\ presence[conn[s].user].status \in {"online", "away"}
        /\ GetUserPresence(conn[s].user) = "offline"

\* C22: delete_message(M, U) soft-deletes M, and nothing else, when M
\* exists, is not deleted and was sent by U, and returns success; in every
\* other case (another user's message, no such message, a message already
\* deleted) it returns MessageNotFound and leaves every message as it is.
C22_DeleteSenderOnly ==
    [][\A p \in Procs :
          (pc[p] = "idle" /\ pc'[p] = "done" /\ call'[p].op = "delete_message")
          => LET m == call'[p].msg
                 u == call'[p].user
             IN  IF /\ m \in MsgIds
                    /\ messages[m].deleted_at = NULL
                    /\ messages[m].sender_id = u
                 THEN /\ ret'[p].status = "ok"
                      /\ messages'[m].deleted_at # NULL
                      /\ messages' = [messages EXCEPT ![m].deleted_at = messages'[m].deleted_at]
                 ELSE /\ ret'[p].status = "MessageNotFound"
                      /\ messages' = messages]_vars

\* The sender's second delete of a message has returned MessageNotFound.
C22_Witness ==
    \E p \in Procs :
        /\ Done(p, "delete_message")
        /\ ret[p].status = "MessageNotFound"
        /\ call[p].msg \in MsgIds
        /\ messages[call[p].msg].sender_id = call[p].user
        /\ messages[call[p].msg].deleted_at # NULL

\* The participant rows of conversation c for user u with a given role.
RowsOf(c, u, role) ==
    {i \in DOMAIN participants :
        /\ participants[i].conversation_id = c
        /\ participants[i].user_id = u
        /\ participants[i].role = role}

\* C23: when create_group_conversation commits, the new conversation has
\* one owner row, the caller's, one member row for every user named in
\* member_ids other than the caller and no other row, whatever the list
\* (ids repeated, the caller's id in it); no conversation ever has two
\* active rows for one user; and a call that fails in the store leaves no
\* conversation and no participant row behind.
C23_GroupMembersDistinct ==
    /\ [](\A p \in Procs :
            (call[p].op = "create_group" /\ call[p].conv \in ConvIds)
            => LET c == call[p].conv
                   named == {call[p].members[i] : i \in DOMAIN call[p].members}
                              \ {call[p].user}
               IN  \A u \in Users :
                     /\ Cardinality(RowsOf(c, u, "owner")) =
                           (IF u = call[p].user THEN 1 ELSE 0)
                     /\ Cardinality(RowsOf(c, u, "member")) =
                           (IF u \in named THEN 1 ELSE 0))
    /\ [](\A c \in ConvIds, u \in Users :
            Cardinality({i \in DOMAIN participants :
                /\ participants[i].conversation_id = c
                /\ participants[i].user_id = u
                /\ participants[i].left_at = NULL}) <= 1)
    /\ [][\A p \in Procs :
            (call'[p].op = "create_group" /\ ret'[p].status = "Database")
            => UNCHANGED store]_vars

\* A session is Active from the spawn of its three tasks until one of them
\* ends; here with its relay subscription established.
Active(s) ==
    /\ conn[s].hs = "select"
    /\ Subscribed(s)
    /\ "ended" \notin {conn[s].send_task, conn[s].recv_task}

\* Message m's event is in the channel of connection s or was written from
\* it to the socket.
Enqueued(s, m) == CountIn(chan[s], m) + CountIn(wire[s], m) > 0

WaitsForRoom(t) == conn[t].recv_task = "su_wait"

\* C25: no task waits for room on a channel while the registry is locked,
\* so a register or an unregister that is due never finds the lock held by
\* a send that waits on a full channel.
C25_LockNotHeldAcrossWait ==
    /\ ~(ReadLocked /\ \E t \in Sessions : WaitsForRoom(t))
    /\ \A s, t \in Sessions :
          conn[s].hs \in {"register", "unregister"} => ~WaitsForRoom(t)

\* C26: get_messages, with or without before, returns no soft-deleted
\* message; get_conversation reports no soft-deleted message as the last
\* message and counts none as unread; and a soft-deleted message stays in
\* the store, deleted, with its status and its receipts as the delete found
\* them.
C26_DeletedIsHidden ==
    /\ [](\A p \in Procs :
            (Done(p, "get_messages") /\ ret[p].status = "ok")
            => \A m \in Range(ret[p].rows) : messages[m].deleted_at = NULL)
    /\ [](\A p \in Procs :
            (Done(p, "get_conversation") /\ ret[p].status = "ok")
            => /\ ret[p].last # 0 => messages[ret[p].last].deleted_at = NULL
               /\ ret[p].unread = Unread(call[p].conv, call[p].user)
               /\ ret[p].unread <= Cardinality({m \in LiveMessages(call[p].conv) :
                                      messages[m].sender_id # call[p].user}))
    /\ [][/\ \A m \in MsgIds :
               /\ m \in DOMAIN messages'
               /\ messages[m].deleted_at # NULL => messages'[m].deleted_at # NULL
          /\ \A p \in Procs :
               (pc[p] = "idle" /\ call'[p].op = "delete_message")
               => /\ receipts' = receipts
                  /\ \A m \in MsgIds : messages'[m].status = messages[m].status]_vars

\* get_conversation has returned no unread message and no last message to
\* a user for a conversation whose only message, from the other end, is
\* soft-deleted and still has its delivered receipt.
C26_Witness ==
    \E p \in Procs :
        /\ Done(p, "get_conversation")
        /\ ret[p].status = "ok"
        /\ ret[p].unread = 0
        /\ ret[p].last = 0
        /\ \E m \in MsgIds :
            /\ messages[m].conversation_id = call[p].conv
            /\ messages[m].sender_id # call[p].user
            /\ messages[m].deleted_at # NULL
            /\ messages[m].status = "delivered"
            /\ BagIn([message_id |-> m, user_id |-> call[p].user, type |-> "delivered"],
                     receipts)

\* C27: in every state, the states between the statements of mark_as_read
\* included, a read receipt of a user for a message has a delivered receipt
\* of that user for that message beside it.
C27_ReadImpliesDelivered ==
    \A r \in BagToSet(receipts) :
        r.type = "read"
        => BagIn([message_id |-> r.message_id, user_id |-> r.user_id,
                  type |-> "delivered"], receipts)

\* One mark_as_read has written its read receipt and not yet the status,
\* while another one for the same message and user is between its two
\* inserts.
C27_Witness ==
    \E p, q \in Procs :
        /\ pc[p] = "mr_update"
        /\ pc[q] = "mr_insert"
        /\ call[p].msg = call[q].msg
        /\ call[p].user = call[q].user
        /\ messages[call[p].msg].status = "sent"
        /\ BagIn([message_id |-> call[p].msg, user_id |-> call[p].user, type |-> "read"],
                 receipts)

TypingEvents(c, u, to) ==
    {TypingEvent(v, c, u, is_typing) : v \in to, is_typing \in BOOLEAN}

\* User v has a participant row of conversation c, and left_at is set on
\* every one.
HasLeft(c, v) ==
    /\ \E i \in DOMAIN participants :
          participants[i].conversation_id = c /\ participants[i].user_id = v
    /\ ~ActiveMember(c, v)

\* C29: in every state the users the recipients query selects for a sender
\* are the users who pass the participant check, the sender aside, and a
\* user who left is in neither set; a send_message, get_messages or
\* get_conversation call passes its check exactly when the caller is an
\* active participant; and a successful send_message or broadcast_typing
\* publishes its event to exactly the other active participants.
C29_AuthMatchesFanout ==
    /\ [](\A c \in ConvIds, u \in Users :
            /\ Recipients(c, u) = {v \in Users : IsParticipant(c, v)} \ {u}
            /\ \A v \in Users :
                  HasLeft(c, v) => ~IsParticipant(c, v) /\ v \notin Recipients(c, u))
    /\ [][\A p \in Procs :
            (pc[p] = "idle" /\ pc'[p] # "idle" /\ call'[p].op \in AuthOps)
            => (pc'[p] # "done" <=> ActiveMember(call'[p].conv, call'[p].user))]_vars
    /\ [][\A p \in Procs :
            (pc[p] = "sm_notify" /\ pc'[p] = "done" /\ ret'[p].status = "ok")
            => published' = published \cup
                   {NewMessageEvent(v, call[p].msg) :
                       v \in ActiveSet(call[p].conv) \ {call[p].user}}]_vars
    /\ [][\A p \in Procs :
            ( /\ pc[p] = "idle"
              /\ call'[p].op = "broadcast_typing"
              /\ ret'[p].status = "ok" )
            => /\ published' \ published \subseteq
                      TypingEvents(call'[p].conv, call'[p].user,
                                   ActiveSet(call'[p].conv) \ {call'[p].user})
               /\ \A v \in ActiveSet(call'[p].conv) \ {call'[p].user} :
                      published' \cap TypingEvents(call'[p].conv, call'[p].user, {v}) # {}]_vars

\* A typing signal of an active participant has gone out after another
\* member left: the member who stayed has a typing event, the one who left
\* has none from anyone.
C29_Witness ==
    \E p \in Procs : \E v, w \in Users :
        /\ Done(p, "broadcast_typing")
        /\ ret[p].status = "ok"
        /\ ActiveMember(call[p].conv, call[p].user)
        /\ HasLeft(call[p].conv, v)
        /\ ActiveMember(call[p].conv, w)
        /\ w # call[p].user
        /\ published \cap TypingEvents(call[p].conv, call[p].user, {w}) # {}
        /\ \A e \in published : e.to # v

Pongs(events) == Cardinality({i \in DOMAIN events : events[i].type = "pong"})

LastSessionClosed(u) ==
    /\ \E s \in Sessions : conn[s].user = u /\ conn[s].hs = "closed"
    /\ \A s \in Sessions :
          (conn[s].user = u /\ conn[s].hs # "none") => conn[s].hs = "closed"

\* C32: once the last local session of a user has closed, no redis_task
\* for that user is still running: none holds a subscription and none
\* holds tx_clone, the Sender of a closed session's channel.
C32_NoSubscriptionAfterLastClose ==
    \A u \in Users :
        LastSessionClosed(u)
        => \A s \in Sessions :
              conn[s].user = u => conn[s].redis_task \in {"off", "ended"}

TiesOrderedById(dir) ==
    \A p \in Procs :
        (Done(p, "get_messages") /\ ret[p].status = "ok")
        => \A i, j \in DOMAIN ret[p].rows :
              (/\ i < j
               /\ messages[ret[p].rows[i]].created_at = messages[ret[p].rows[j]].created_at)
              => dir * ret[p].rows[i] < dir * ret[p].rows[j]

\* C34: get_messages returns the messages newest first in one total order,
\* by creation time descending and, among equal creation times, by
\* identity: the results of all calls agree on the order of two messages
\* created at the same time.
C34_DeterministicOrder ==
    /\ \A p \in Procs :
          (Done(p, "get_messages") /\ ret[p].status = "ok")
          => \A i, j \in DOMAIN ret[p].rows :
                i < j => messages[ret[p].rows[i]].created_at
                            >= messages[ret[p].rows[j]].created_at
    /\ TiesOrderedById(1) \/ TiesOrderedById(0 - 1)

\* C35: the online key a session has set for its user is kept alive while
\* the session is Active: it has not expired, however long the session has
\* lasted and whether or not the client sends presence frames, so the
\* user's presence reads online.
C35_PresenceRefreshed ==
    \A s \in Sessions :
        (Active(s) /\ presence[conn[s].user].status = "online")
        => /\ clock < presence[conn[s].user].expires
           /\ GetUserPresence(conn[s].user) = "online"

\* Message m has a receipt of the type from some user.
HasReceipt(m, type) ==
    \E u \in Users : BagIn([message_id |-> m, user_id |-> u, type |-> type], receipts)

C37_OtherSessionKeepsOnline ==
    [][\A s, t \in Sessions :
          (/\ s # t
           /\ conn[s].user = conn[t].user
           /\ Active(s) /\ Active(s)'
           /\ conn[t].hs = "presence_off" /\ conn'[t].hs = "closed"
           /\ GetUserPresence(conn[s].user) = "online")
          => GetUserPresence(conn[s].user)' = "online"]_vars

\* The participant rows of conversation c, and the users of a set of rows.
RowsOfConv(c) == {i \in DOMAIN participants : participants[i].conversation_id = c}
UsersOfRows(rows) == {participants[i].user_id : i \in rows}

\* C38: every direct conversation has exactly two participant rows, of two
\* distinct users (so none has two active rows of one user, whatever pair
\* create_direct_conversation was called with), and calls made one at a
\* time leave no two direct conversations of the same two users.
C38_DirectIsPair ==
    /\ \A c \in ConvIds :
          conversations[c].type = "direct"
          => /\ Cardinality(RowsOfConv(c)) = 2
             /\ Cardinality(UsersOfRows(RowsOfConv(c))) = 2
    /\ \A c, d \in ConvIds :
          (/\ c # d
           /\ conversations[c].type = "direct"
           /\ conversations[d].type = "direct"
           /\ \A i \in RowsOfConv(c) \cup RowsOfConv(d) : participants[i].left_at = NULL)
          => UsersOfRows(RowsOfConv(c)) # UsersOfRows(RowsOfConv(d))

\* C39: a broadcast_typing whose caller is not an active participant of
\* the conversation publishes no event and hands none to a subscription.
C39_TypingOnlyByParticipant ==
    [][\A p \in Procs :
          (/\ pc[p] = "idle"
           /\ call'[p].op = "broadcast_typing"
           /\ ~ActiveMember(call'[p].conv, call'[p].user))
          => /\ published' = published
             /\ sub' = sub]_vars

\* C21: a ping is answered on the channel of the connection that sent it
\* and nowhere else: no pong is published to the relay, and a step that
\* puts a pong on a connection's channel is a send_to_user turn of that
\* same connection's ping handler, not a forward from the relay and not the
\* ping handler of another connection; the handler of one ping enqueues
\* one pong.
C21_PongOnlyToSender ==
    /\ [](\A e \in published : e.type # "pong")
    /\ [][\A t \in Sessions :
            Pongs(chan'[t]) > Pongs(chan[t])
            => /\ conn[t].recv_task \in {"su", "su_wait"}
               /\ sub' = sub
               /\ \A s \in Sessions \ {t} : conn'[s] = conn[s]]_vars
    /\ [](\A t \in Sessions :
            Pongs(sub[t]) + Pongs(chan[t]) + Pongs(wire[t]) <= inbound)


\* C19: once handle_socket has returned, none of the connection's loops
\* does any more work: no frame is written to its socket, no inbound frame
\* is dispatched, no relay event is forwarded into its channel.
C19_ClosedSessionIsQuiet ==
    [][\A s \in Sessions :
          conn[s].hs = "closed"
          => /\ wire'[s] = wire[s]
             /\ ~(conn[s].recv_task = "run" /\ conn'[s].recv_task = "su")
             /\ ~(Len(chan'[s]) > Len(chan[s]) /\ Len(sub'[s]) < Len(sub[s]))]_vars

====
